---- MODULE Spec2Model ----
(***************************************************************************)
(* A model of src/swift-check.py: the SwiftChecker issue log, its six rule *)
(* evaluators, the file scanner (check_file / check_directory), summary    *)
(* and main.                                                               *)
(*                                                                         *)
(* A source line is a sequence of one-character strings, so the string     *)
(* operations and regular expressions of the code are computed character   *)
(* by character.  An issue, which the code formats as                      *)
(*   f"{file_path}:{line_num}: {severity}: {message} ({rule})",            *)
(* is the record of the five interpolated values; `message` holds the      *)
(* number the message reports (0 for a message without a number).          *)
(***************************************************************************)
EXTENDS Integers, Sequences, FiniteSets, TLC

VARIABLES
    pc,              \* position of the running program
    argv,            \* what the command line holds: "missing", "notdir", "dir"
    swift_files,     \* check_directory: the glob result (paths are 1..n)
    file_idx,        \* check_directory: index of the file of the for loop
    lines,           \* check_file: f.readlines() of the current file
    issues,          \* SwiftChecker.issues
    warnings,        \* SwiftChecker.warnings
    errors,          \* SwiftChecker.errors
    console,         \* what print() wrote, in order
    has_errors,      \* main: the value summary() returned
    exit_code,       \* the process's exit status (-1 while running)
    checked,         \* per path, how many times check_file was entered
    line_no,         \* check_function_length: i of the for loop
    cur_line,        \* check_function_length: the line of iteration i
    in_function,     \* check_function_length: local in_function
    function_start,  \* check_function_length: local function_start
    brace_count,     \* check_function_length: local brace_count
    span_s,          \* history: line of the file's first declaration with a brace
    span_depth,      \* history: brace depth counted from line span_s
    span_len,        \* history: e - span_s + 1 once the depth first was <= 0 at e
    api_calls        \* number of log_issue calls made by a client of the class

vars == <<pc, argv, swift_files, file_idx, lines, issues, warnings, errors,
          console, has_errors, exit_code, checked, line_no, cur_line,
          in_function, function_start, brace_count, span_s, span_depth,
          span_len, api_calls>>

scan_vars == <<argv, swift_files, file_idx, lines, has_errors, exit_code, checked>>
func_vars == <<line_no, cur_line, in_function, function_start, brace_count,
               span_s, span_depth, span_len>>

-----------------------------------------------------------------------------
(* Bounds of the model *)

MaxFiles == 2
MaxApiCalls == 2
MaxCodeLen == 4
MaxLines == 6
MaxSpanLines == 62
MaxStart == 2
MaxDepth == 2

(* Constants of the program *)

MaxLineLength == 120
MaxFunctionLength == 60

-----------------------------------------------------------------------------
(* Python's str operations on a sequence of characters *)

Upper == {"A","B","C","D","E","F","G","H","I","J","K","L","M",
          "N","O","P","Q","R","S","T","U","V","W","X","Y","Z"}
Lower == {"a","b","c","d","e","f","g","h","i","j","k","l","m",
          "n","o","p","q","r","s","t","u","v","w","x","y","z"}
Digit == {"0","1","2","3","4","5","6","7","8","9"}
AlNum == Upper \cup Lower \cup Digit
WordChar == AlNum \cup {"_"}

IsSpace(c) == c \in {" ", "\t", "\n", "\r"}

RECURSIVE RStrip(_)
RStrip(s) ==
    IF s = <<>> THEN s
    ELSE IF IsSpace(s[Len(s)]) THEN RStrip(SubSeq(s, 1, Len(s) - 1))
    ELSE s

RECURSIVE LStrip(_)
LStrip(s) ==
    IF s = <<>> THEN s
    ELSE IF IsSpace(s[1]) THEN LStrip(Tail(s))
    ELSE s

Strip(s) == LStrip(RStrip(s))

\* s[p:].startswith(sub), p counted from 1
StartsWithAt(s, sub, p) ==
    /\ p >= 1
    /\ p + Len(sub) - 1 <= Len(s)
    /\ SubSeq(s, p, p + Len(sub) - 1) = sub

\* sub in s
Contains(s, sub) == \E p \in 1..Len(s) : StartsWithAt(s, sub, p)

\* s.split(sub)[0]: the text before the first occurrence of sub
SplitHead(s, sub) ==
    IF Contains(s, sub)
    THEN LET p == CHOOSE q \in 1..Len(s) :
                     /\ StartsWithAt(s, sub, q)
                     /\ \A r \in 1..(q - 1) : ~StartsWithAt(s, sub, r)
         IN  SubSeq(s, 1, p - 1)
    ELSE s

\* s.count(c) for a single character c
Count(s, c) == Cardinality({p \in 1..Len(s) : s[p] = c})

\* the positions q >= p such that s[p..q-1] lies in class (a starred class
\* of a regular expression, with every length backtracking can try)
Run(s, p, class) ==
    {q \in p..(Len(s) + 1) : \A k \in p..(q - 1) : s[k] \in class}

Spaces == {" ", "\t", "\n", "\r"}

-----------------------------------------------------------------------------
(* The issue log *)

Self == [issues |-> issues, warnings |-> warnings, errors |-> errors,
         console |-> console]

Issue(file_path, line_num, severity, rule, message) ==
    [file |-> file_path, line |-> line_num, severity |-> severity,
     message |-> message, rule |-> rule]

LogIssueSwapped(self, file_path, line_num, severity, rule, message) ==
    LET issue == Issue(file_path, line_num, severity, rule, message)
    IN  [issues   |-> Append(self.issues, issue),
         warnings |-> IF severity = "error" THEN self.warnings + 1 ELSE self.warnings,
         errors   |-> IF severity = "error" THEN self.errors ELSE self.errors + 1,
         console  |-> Append(self.console, <<"issue", issue>>)]

LogIssuePrepends(self, file_path, line_num, severity, rule, message) ==
    LET issue == Issue(file_path, line_num, severity, rule, message)
    IN  [issues   |-> <<issue>> \o self.issues,
         warnings |-> IF severity = "error" THEN self.warnings ELSE self.warnings + 1,
         errors   |-> IF severity = "error" THEN self.errors + 1 ELSE self.errors,
         console  |-> Append(self.console, <<"issue", issue>>)]

\* SwiftChecker.log_issue
LogIssue(self, file_path, line_num, severity, rule, message) ==
    LET issue == Issue(file_path, line_num, severity, rule, message)
    IN  [issues   |-> Append(self.issues, issue),
         warnings |-> IF severity = "error" THEN self.warnings ELSE self.warnings + 1,
         errors   |-> IF severity = "error" THEN self.errors + 1 ELSE self.errors,
         console  |-> Append(self.console, <<"issue", issue>>)]

\* a print() other than log_issue's
Say(self, what) == [self EXCEPT !.console = Append(@, what)]

-----------------------------------------------------------------------------------------------------------------------------------------------------
(* The rule evaluators.  Each takes the checker (self), the path and the    *)
(* lines of one file and returns the checker after its for loop.  The loop  *)
(* `for i, line in enumerate(lines, 1)` runs its body for i = lo..hi in     *)
(* order; it is computed by halves, first lo..mid and from its result       *)
(* mid+1..hi, which is the same sequence of iterations.  The test between   *)
(* the halves is always true: it makes TLC compute the first half before    *)
(* the second.                                                              *)

\* the body of the for loop of check_line_length
LineLengthBody(self, file_path, i, line) ==
    IF Len(RStrip(line)) > MaxLineLength
    THEN LogIssue(self, file_path, i, "warning", "line_length", Len(RStrip(line)))
    ELSE self

RECURSIVE CheckLineLengthFor(_, _, _, _, _)
CheckLineLengthFor(self, file_path, ls, lo, hi) ==
    IF lo > hi THEN self
    ELSE IF lo = hi THEN LineLengthBody(self, file_path, lo, ls[lo])
    ELSE LET mid == (lo + hi) \div 2
             first == CheckLineLengthFor(self, file_path, ls, lo, mid)
         IN  IF first.warnings >= 0
             THEN CheckLineLengthFor(first, file_path, ls, mid + 1, hi)
             ELSE self

\* SwiftChecker.check_line_length
CheckLineLength(self, file_path, ls) ==
    CheckLineLengthFor(self, file_path, ls, 1, Len(ls))

\* line.split("//")[0] if "//" in line else line
CodePart(line) ==
    IF Contains(line, <<"/", "/">>) THEN SplitHead(line, <<"/", "/">>) ELSE line

\* re.search(r'[^!=<>]\s*!\s*[^=]', code_part)
ForceUnwrapSearch(code_part) ==
    \E a \in 1..Len(code_part) :
        /\ code_part[a] \notin {"!", "=", "<", ">"}
        /\ \E b \in Run(code_part, a + 1, Spaces) :
              /\ b <= Len(code_part)
              /\ code_part[b] = "!"
              /\ \E c \in Run(code_part, b + 1, Spaces) :
                    /\ c <= Len(code_part)
                    /\ code_part[c] # "="

\* the body of the for loop of check_force_unwrapping
ForceUnwrappingBody(self, file_path, i, line) ==
    IF ForceUnwrapSearch(CodePart(line))
    THEN LogIssue(self, file_path, i, "warning", "force_unwrapping", 0)
    ELSE self

RECURSIVE CheckForceUnwrappingFor(_, _, _, _, _)
CheckForceUnwrappingFor(self, file_path, ls, lo, hi) ==
    IF lo > hi THEN self
    ELSE IF lo = hi THEN ForceUnwrappingBody(self, file_path, lo, ls[lo])
    ELSE LET mid == (lo + hi) \div 2
             first == CheckForceUnwrappingFor(self, file_path, ls, lo, mid)
         IN  IF first.warnings >= 0
             THEN CheckForceUnwrappingFor(first, file_path, ls, mid + 1, hi)
             ELSE self

\* SwiftChecker.check_force_unwrapping
CheckForceUnwrapping(self, file_path, ls) ==
    CheckForceUnwrappingFor(self, file_path, ls, 1, Len(ls))

TryForceBodyAsError(self, file_path, i, line) ==
    IF /\ Contains(line, <<"t", "r", "y", "!">>)
       /\ ~StartsWithAt(Strip(line), <<"/", "/">>, 1)
    THEN LogIssue(self, file_path, i, "error", "try_force", 0)
    ELSE self

\* the body of the for loop of check_try_force
TryForceBody(self, file_path, i, line) ==
    IF /\ Contains(line, <<"t", "r", "y", "!">>)
       /\ ~StartsWithAt(Strip(line), <<"/", "/">>, 1)
    THEN LogIssue(self, file_path, i, "warning", "try_force", 0)
    ELSE self

RECURSIVE CheckTryForceFor(_, _, _, _, _)
CheckTryForceFor(self, file_path, ls, lo, hi) ==
    IF lo > hi THEN self
    ELSE IF lo = hi THEN TryForceBody(self, file_path, lo, ls[lo])
    ELSE LET mid == (lo + hi) \div 2
             first == CheckTryForceFor(self, file_path, ls, lo, mid)
         IN  IF first.warnings >= 0
             THEN CheckTryForceFor(first, file_path, ls, mid + 1, hi)
             ELSE self

\* SwiftChecker.check_try_force
CheckTryForce(self, file_path, ls) ==
    CheckTryForceFor(self, file_path, ls, 1, Len(ls))

AccessModifiers ==
    { <<"p","r","i","v","a","t","e">>, <<"p","u","b","l","i","c">>,
      <<"i","n","t","e","r","n","a","l">>,
      <<"f","i","l","e","p","r","i","v","a","t","e">> }

\* the positions the regular expression can be at after one more
\* (private\s+|public\s+|internal\s+|fileprivate\s+)
AfterModifier(s, from) ==
    UNION { Run(s, pm[1] + Len(pm[2]) + 1, Spaces) :
              pm \in {qm \in from \X AccessModifiers :
                        /\ StartsWithAt(s, qm[2], qm[1])
                        /\ qm[1] + Len(qm[2]) <= Len(s)
                        /\ IsSpace(s[qm[1] + Len(qm[2])])} }

RECURSIVE AfterModifiers(_, _)
AfterModifiers(s, from) ==
    LET more == AfterModifier(s, from) \ from
    IN  IF more = {} THEN from ELSE AfterModifiers(s, from \cup more)

\* re.match(r'\s*(private\s+|public\s+|internal\s+|fileprivate\s+)*func\s+', stripped)
MatchesFuncDecl(stripped) ==
    \E p \in AfterModifiers(stripped, Run(stripped, 1, Spaces)) :
        /\ StartsWithAt(stripped, <<"f","u","n","c">>, p)
        /\ p + 4 <= Len(stripped)
        /\ IsSpace(stripped[p + 4])

\* line.count('{') - line.count('}')
BraceDelta(line) == Count(line, "{") - Count(line, "}")

\* the locals of check_function_length before its for loop
FunctionLengthInit == [in_function |-> FALSE, function_start |-> 0, brace_count |-> 0]

\* the body of the for loop of check_function_length; st holds the checker
\* (self) and the locals (loc)
FunctionLengthBody(st, file_path, i, line) ==
    LET self == st.self
        loc == st.loc
        stripped == Strip(line)
        count == loc.brace_count + BraceDelta(line)
        function_length == i - loc.function_start + 1
    IN  IF MatchesFuncDecl(stripped)
        THEN IF Contains(line, <<"{">>)
             THEN [self |-> self,
                   loc  |-> [in_function |-> TRUE, function_start |-> i,
                             brace_count |-> BraceDelta(line)]]
             ELSE st
        ELSE IF loc.in_function
             THEN IF count <= 0
                  THEN [self |-> IF function_length > MaxFunctionLength
                                 THEN LogIssue(self, file_path, loc.function_start,
                                               "warning", "function_body_length",
                                               function_length)
                                 ELSE self,
                        loc  |-> [loc EXCEPT !.brace_count = count,
                                             !.in_function = FALSE]]
                  ELSE [self |-> self, loc |-> [loc EXCEPT !.brace_count = count]]
             ELSE st

RECURSIVE CheckFunctionLengthFor(_, _, _, _, _)
CheckFunctionLengthFor(st, file_path, ls, lo, hi) ==
    IF lo > hi THEN st
    ELSE IF lo = hi THEN FunctionLengthBody(st, file_path, lo, ls[lo])
    ELSE LET mid == (lo + hi) \div 2
             first == CheckFunctionLengthFor(st, file_path, ls, lo, mid)
         IN  IF first.loc.in_function \in BOOLEAN
             THEN CheckFunctionLengthFor(first, file_path, ls, mid + 1, hi)
             ELSE st

\* SwiftChecker.check_function_length
CheckFunctionLength(self, file_path, ls) ==
    CheckFunctionLengthFor([self |-> self, loc |-> FunctionLengthInit],
                           file_path, ls, 1, Len(ls)).self

TodoMarker == <<"/", "/", " ", "T", "O", "D", "O">>

\* the body of the for loop of check_todo_format
TodoFormatBody(self, file_path, i, line) ==
    IF /\ Contains(line, TodoMarker)
       /\ ~Contains(line, Append(TodoMarker, ":"))
    THEN LogIssue(self, file_path, i, "warning", "todo_format", 0)
    ELSE self

RECURSIVE CheckTodoFormatFor(_, _, _, _, _)
CheckTodoFormatFor(self, file_path, ls, lo, hi) ==
    IF lo > hi THEN self
    ELSE IF lo = hi THEN TodoFormatBody(self, file_path, lo, ls[lo])
    ELSE LET mid == (lo + hi) \div 2
             first == CheckTodoFormatFor(self, file_path, ls, lo, mid)
         IN  IF first.warnings >= 0
             THEN CheckTodoFormatFor(first, file_path, ls, mid + 1, hi)
             ELSE self

\* SwiftChecker.check_todo_format
CheckTodoFormat(self, file_path, ls) ==
    CheckTodoFormatFor(self, file_path, ls, 1, Len(ls))

\* \b before position p, where a word character stands
WordStartsAt(s, p) == p = 1 \/ s[p - 1] \notin WordChar

\* the positions after keyword\s+ for a keyword starting at a \b
AfterKeyword(s, keywords) ==
    UNION { Run(s, pk[1] + Len(pk[2]) + 1, Spaces) :
              pk \in {qk \in (1..Len(s)) \X keywords :
                        /\ WordStartsAt(s, qk[1])
                        /\ StartsWithAt(s, qk[2], qk[1])
                        /\ qk[1] + Len(qk[2]) <= Len(s)
                        /\ IsSpace(s[qk[1] + Len(qk[2])])} }

\* re.search(r'\b(let|var)\s+([A-Z][a-zA-Z0-9]*)\s*=', line)
VariableNameSearch(line) ==
    \E p \in AfterKeyword(line, { <<"l","e","t">>, <<"v","a","r">> }) :
        /\ p <= Len(line)
        /\ line[p] \in Upper
        /\ \E q \in Run(line, p + 1, AlNum) :
              \E r \in Run(line, q, Spaces) :
                  r <= Len(line) /\ line[r] = "="

\* re.search(r'\b(class|struct|enum|protocol)\s+([a-z][a-zA-Z0-9]*)', line)
TypeNameSearch(line) ==
    \E p \in AfterKeyword(line, { <<"c","l","a","s","s">>, <<"s","t","r","u","c","t">>,
                                  <<"e","n","u","m">>,
                                  <<"p","r","o","t","o","c","o","l">> }) :
        /\ p <= Len(line)
        /\ line[p] \in Lower

\* the body of the for loop of check_naming_conventions
NamingConventionsBody(self, file_path, i, line) ==
    LET s1 == IF VariableNameSearch(line)
              THEN LogIssue(self, file_path, i, "warning", "variable_name", 0)
              ELSE self
    IN  IF TypeNameSearch(line)
        THEN LogIssue(s1, file_path, i, "warning", "type_name", 0)
        ELSE s1

RECURSIVE CheckNamingConventionsFor(_, _, _, _, _)
CheckNamingConventionsFor(self, file_path, ls, lo, hi) ==
    IF lo > hi THEN self
    ELSE IF lo = hi THEN NamingConventionsBody(self, file_path, lo, ls[lo])
    ELSE LET mid == (lo + hi) \div 2
             first == CheckNamingConventionsFor(self, file_path, ls, lo, mid)
         IN  IF first.warnings >= 0
             THEN CheckNamingConventionsFor(first, file_path, ls, mid + 1, hi)
             ELSE self

\* SwiftChecker.check_naming_conventions
CheckNamingConventions(self, file_path, ls) ==
    CheckNamingConventionsFor(self, file_path, ls, 1, Len(ls))

-----
(* Inputs: source lines and files the scanner may read *)

LetFooBang == <<"l","e","t"," ","F","o","o"," ","="," ","b","a","r","!","\n">>
TodoNoColon == <<"/","/"," ","T","O","D","O"," ","f","i","x","\n">>
TryBang == <<"t","r","y","!"," ","f","(",")","\n">>
StructLower == <<"s","t","r","u","c","t"," ","c","o","n","f","i","g"," ","{","}","\n">>
LetFoo == <<"l","e","t"," ","f","o","o"," ","="," ","5","\n">>
FuncOpen == <<"f","u","n","c"," ","f","(",")"," ","{","\n">>
FuncBalanced == <<"f","u","n","c"," ","g","(",")"," ","{","}","\n">>
FuncNoBrace == <<"f","u","n","c"," ","h","(",")","\n">>
PrivateFuncOpen == <<"p","r","i","v","a","t","e"," ","f","u","n","c"," ","k","(",")"," ","{","\n">>
BlockOpen == <<"i","f"," ","x"," ","{","\n">>
BlockClose == <<"}","\n">>
Blank == <<"\n">>
LongLine == [k \in 1..(MaxLineLength + 2) |-> IF k <= MaxLineLength + 1 THEN "a" ELSE "\n"]

\* a forced unwrap and a capitalised binding on line 1, a long line on line 2
FileUnwrapThenLong == <<LetFooBang, LongLine>>
FileTodoTryType == <<TodoNoColon, TryBang, StructLower>>
FileClean == <<LetFoo>>
\* a function of MaxFunctionLength + 2 lines
FileLongFunction ==
    [k \in 1..(MaxFunctionLength + 2) |->
        IF k = 1 THEN FuncOpen
        ELSE IF k = MaxFunctionLength + 2 THEN BlockClose ELSE Blank]

SampleFiles == {FileUnwrapThenLong, FileTodoTryType, FileClean, FileLongFunction}

\* the lines a file under check_function_length is made of
FuncLines == {FuncOpen, FuncBalanced, FuncNoBrace, BlockOpen, BlockClose, Blank}

\* the characters a line under check_force_unwrapping is made of
UnwrapChars == {"!", "=", "<", ">", "/", " ", "a"}

-----------------------------------------------------------------------------
(* main, check_directory, check_file, summary *)

Store(self) ==
    /\ issues' = self.issues
    /\ warnings' = self.warnings
    /\ errors' = self.errors
    /\ console' = self.console

\* main, lines 145-154: the argument checks and the construction of the checker
MainArgs ==
    /\ pc = "main"
    /\ \/ /\ argv = "missing"
          /\ Store(Say(Self, <<"usage">>))
          /\ exit_code' = 1
          /\ pc' = "exited"
       \/ /\ argv = "notdir"
          /\ Store(Say(Self, <<"not_a_directory">>))
          /\ exit_code' = 1
          /\ pc' = "exited"
       \/ /\ argv = "dir"
          /\ Store(Self)
          /\ exit_code' = exit_code
          /\ pc' = "check_directory"
    /\ UNCHANGED <<argv, swift_files, file_idx, lines, has_errors, checked,
                   func_vars, api_calls>>

\* check_directory, lines 124-130: the glob and the early return
Glob ==
    /\ pc = "check_directory"
    /\ \E n \in 0..MaxFiles :
          /\ swift_files' = [p \in 1..n |-> p]
          /\ checked' = [p \in 1..n |-> 0]
          /\ IF n = 0
             THEN /\ Store(Say(Self, <<"no_swift_files">>))
                  /\ file_idx' = file_idx
                  /\ pc' = "summary"
             ELSE /\ Store(Say(Self, <<"found", n>>))
                  /\ file_idx' = 1
                  /\ pc' = "check_file"
    /\ UNCHANGED <<argv, lines, has_errors, exit_code, func_vars, api_calls>>

\* the for loop of check_directory moving to its next file, or returning
NextFile ==
    /\ file_idx' = file_idx + 1
    /\ pc' = IF file_idx + 1 > Len(swift_files) THEN "summary" ELSE "check_file"

OpenReadFatal ==
    /\ pc = "check_file"
    /\ checked' = [checked EXCEPT ![file_idx] = @ + 1]
    /\ \/ /\ \E content \in SampleFiles : lines' = content
          /\ Store(Say(Self, <<"linting", swift_files[file_idx]>>))
          /\ file_idx' = file_idx
          /\ exit_code' = exit_code
          /\ pc' = "check_line_length"
       \/ /\ lines' = <<>>
          /\ Store(Say(Self, <<"error_checking", swift_files[file_idx]>>))
          /\ file_idx' = file_idx
          /\ exit_code' = 1
          /\ pc' = "exited"
    /\ UNCHANGED <<argv, swift_files, has_errors, func_vars, api_calls>>

\* check_file, lines 105-109 and 119-120: open and read the file; a failure
\* is caught and printed
OpenRead ==
    /\ pc = "check_file"
    /\ checked' = [checked EXCEPT ![file_idx] = @ + 1]
    /\ \/ /\ \E content \in SampleFiles : lines' = content
          /\ Store(Say(Self, <<"linting", swift_files[file_idx]>>))
          /\ file_idx' = file_idx
          /\ pc' = "check_line_length"
       \/ /\ lines' = <<>>
          /\ Store(Say(Self, <<"error_checking", swift_files[file_idx]>>))
          /\ NextFile
    /\ UNCHANGED <<argv, swift_files, has_errors, exit_code, func_vars, api_calls>>

Evaluate(at, self, next) ==
    /\ pc = at
    /\ Store(self)
    /\ pc' = next
    /\ UNCHANGED <<scan_vars, func_vars, api_calls>>

\* check_file, line 112
RunCheckLineLength ==
    Evaluate("check_line_length",
             CheckLineLength(Self, swift_files[file_idx], lines),
             "check_force_unwrapping")

\* check_file, line 113
RunCheckForceUnwrapping ==
    Evaluate("check_force_unwrapping",
             CheckForceUnwrapping(Self, swift_files[file_idx], lines),
             "check_try_force")

\* check_file, line 114
RunCheckTryForce ==
    Evaluate("check_try_force",
             CheckTryForce(Self, swift_files[file_idx], lines),
             "check_function_length")

\* check_file, line 115
RunCheckFunctionLength ==
    Evaluate("check_function_length",
             CheckFunctionLength(Self, swift_files[file_idx], lines),
             "check_todo_format")

\* check_file, line 116
RunCheckTodoFormat ==
    Evaluate("check_todo_format",
             CheckTodoFormat(Self, swift_files[file_idx], lines),
             "check_naming_conventions")

\* check_file, line 117, and the return to the for loop of check_directory
RunCheckNamingConventions ==
    /\ pc = "check_naming_conventions"
    /\ Store(CheckNamingConventions(Self, swift_files[file_idx], lines))
    /\ NextFile
    /\ UNCHANGED <<argv, swift_files, lines, has_errors, exit_code, checked,
                   func_vars, api_calls>>

SummaryVerdictCountsWarnings(self) == self.errors > 0 \/ self.warnings > 0

\* SwiftChecker.summary: the value it returns
SummaryVerdict(self) == self.errors > 0

\* SwiftChecker.summary, called at main line 156
Summary ==
    /\ pc = "summary"
    /\ Store(IF warnings = 0 /\ errors = 0
             THEN Say(Self, <<"no_issues">>)
             ELSE Say(Self, <<"summary", warnings, errors>>))
    /\ has_errors' = SummaryVerdict(Self)
    /\ pc' = "exit"
    /\ UNCHANGED <<argv, swift_files, file_idx, lines, exit_code, checked,
                   func_vars, api_calls>>

\* main, line 158: sys.exit(1 if has_errors else 0)
Exit ==
    /\ pc = "exit"
    /\ exit_code' = IF has_errors THEN 1 ELSE 0
    /\ pc' = "exited"
    /\ UNCHANGED <<argv, swift_files, file_idx, lines, issues, warnings, errors,
                   console, has_errors, checked, func_vars, api_calls>>

MainPcs == {"main", "check_directory", "check_file", "check_line_length",
            "check_force_unwrapping", "check_try_force", "check_function_length",
            "check_todo_format", "check_naming_conventions", "summary", "exit"}

InterruptHandled ==
    /\ pc \in MainPcs
    /\ pc' = "killed"
    /\ exit_code' = 0
    /\ console' = Append(console, <<"cancelled">>)
    /\ UNCHANGED <<argv, swift_files, file_idx, lines, issues, warnings, errors,
                   has_errors, checked, func_vars, api_calls>>

\* a KeyboardInterrupt while main runs.  It is no Exception, so check_file's
\* handler (line 119) lets it pass, and main is called with no handler
\* (lines 160-161): the interpreter ends the process as one killed by SIGINT
\* (status 128 + 2), and nothing is printed to the console.
Interrupt ==
    /\ pc \in MainPcs
    /\ pc' = "killed"   \* ended by the interrupt
    /\ exit_code' = 128 + 2
    /\ UNCHANGED <<argv, swift_files, file_idx, lines, issues, warnings, errors,
                   console, has_errors, checked, func_vars, api_calls>>

\* a client of the class calling log_issue between two calls of main's
ApiLogIssue ==
    /\ pc \in {"check_directory", "check_file", "summary"}
    /\ api_calls < MaxApiCalls
    /\ api_calls' = api_calls + 1
    /\ \E severity \in {"warning", "error"} :
          Store(LogIssue(Self, 0, 1, severity, "client", 0))
    /\ UNCHANGED <<pc, scan_vars, func_vars>>

-----------------------------------------------------------------------------------------------------------------------------------------------------
(* check_function_length, one iteration of its for loop at a time *)

\* iteration line_no + 1 of the for loop, on `line`.  The history variables
\* follow the file's first declaration with a brace: its line, the brace
\* depth counted from that line and, once the depth first is <= 0, the
\* number of lines the function spans.
FunctionLengthIteration(line) ==
    LET i == line_no + 1
        loc == [in_function |-> in_function, function_start |-> function_start,
                brace_count |-> brace_count]
        r == FunctionLengthBody([self |-> Self, loc |-> loc], 1, i, line)
        declared == MatchesFuncDecl(Strip(line)) /\ Contains(line, <<"{">>)
        s == IF span_s = 0 THEN i ELSE span_s
        depth == IF span_s = 0 THEN BraceDelta(line)
                 ELSE span_depth + BraceDelta(line)
    IN  /\ r.loc.brace_count <= MaxDepth
        /\ line_no' = i
        /\ in_function' = r.loc.in_function
        /\ function_start' = r.loc.function_start
        /\ brace_count' = r.loc.brace_count
        /\ Store(r.self)
        /\ IF (span_s = 0 /\ ~declared) \/ span_len > 0
           THEN UNCHANGED <<span_s, span_depth, span_len>>
           ELSE /\ depth <= MaxDepth
                /\ span_s' = s
                /\ span_depth' = depth
                /\ span_len' = IF depth <= 0 THEN i - s + 1 ELSE 0

\* a file of at most MaxLines lines, any line of FuncLines at any place
FunctionLengthLine ==
    /\ pc = "function_length"
    /\ line_no < MaxLines
    /\ \E line \in FuncLines :
          /\ FunctionLengthIteration(line)
          /\ cur_line' = line
    /\ UNCHANGED <<pc, scan_vars, api_calls>>

\* a file of at most MaxSpanLines lines whose first function, if it has
\* one, starts on one of its first MaxStart lines; the file is read up to
\* the line where that function has closed and the loop is outside a function
SpanLine ==
    /\ pc = "function_span"
    /\ line_no < MaxSpanLines
    /\ ~(span_len > 0 /\ ~in_function)
    /\ \E line \in FuncLines :
          /\ FunctionLengthIteration(line)
          /\ span_s' = 0 => line_no' < MaxStart
    /\ UNCHANGED <<pc, cur_line, scan_vars, api_calls>>

-----
(* check_force_unwrapping on a file of one line *)

UnwrapLine ==
    /\ pc = "force_unwrapping"
    /\ Store(CheckForceUnwrapping(Self, 1, lines))
    /\ pc' = "force_unwrapping_done"
    /\ UNCHANGED <<scan_vars, func_vars, api_calls>>

-----------------------------------------------------------------------------
(* Specifications *)

\* SwiftChecker.__init__ and the locals before anything ran
InitCommon ==
    /\ swift_files = <<>>
    /\ file_idx = 0
    /\ issues = <<>>
    /\ warnings = 0
    /\ errors = 0
    /\ console = <<>>
    /\ has_errors = FALSE
    /\ exit_code = -1
    /\ checked = <<>>
    /\ line_no = 0
    /\ cur_line = <<>>
    /\ in_function = FunctionLengthInit.in_function
    /\ function_start = FunctionLengthInit.function_start
    /\ brace_count = FunctionLengthInit.brace_count
    /\ span_s = 0
    /\ span_depth = 0
    /\ span_len = 0
    /\ api_calls = 0

Init ==
    /\ InitCommon
    /\ pc = "main"
    /\ argv \in {"missing", "notdir", "dir"}
    /\ lines = <<>>

Next ==
    \/ MainArgs
    \/ Glob
    \/ OpenRead
    \/ RunCheckLineLength
    \/ RunCheckForceUnwrapping
    \/ RunCheckTryForce
    \/ RunCheckFunctionLength
    \/ RunCheckTodoFormat
    \/ RunCheckNamingConventions
    \/ Summary
    \/ Exit
    \/ Interrupt

\* a run of main
Spec == Init /\ [][Next]_vars

\* a run of main with a client logging issues of its own
SpecApi == Init /\ [][Next \/ ApiLogIssue]_vars

InitFunc ==
    /\ InitCommon
    /\ pc = "function_length"
    /\ argv = "dir"
    /\ lines = <<>>

\* check_function_length over every file of at most MaxLines lines
SpecFunc == InitFunc /\ [][FunctionLengthLine]_vars

InitSpan ==
    /\ InitCommon
    /\ pc = "function_span"
    /\ argv = "dir"
    /\ lines = <<>>

\* check_function_length over the files of at most MaxSpanLines lines whose
\* first function starts early
SpecSpan == InitSpan /\ [][SpanLine]_vars

RECURSIVE SeqsUpTo(_, _)
SeqsUpTo(S, n) ==
    IF n = 0 THEN {<<>>}
    ELSE LET shorter == SeqsUpTo(S, n - 1)
         IN  shorter \cup {Append(s, c) : s \in shorter, c \in S}

InitUnwrap ==
    /\ InitCommon
    /\ pc = "force_unwrapping"
    /\ argv = "dir"
    /\ \E body \in SeqsUpTo(UnwrapChars, MaxCodeLen), eol \in {<<>>, <<"\n">>} :
          lines = <<body \o eol>>

\* check_force_unwrapping over every line of at most MaxCodeLen characters
SpecUnwrap == InitUnwrap /\ [][UnwrapLine]_vars

-----------------------------------------------------------------------------
(* Properties *)

IsPrefix(a, b) == Len(a) <= Len(b) /\ SubSeq(b, 1, Len(a)) = a

CountSeverity(log, severity) ==
    Cardinality({k \in 1..Len(log) : log[k].severity = severity})

Printed(what) == \E k \in 1..Len(console) : console[k] = what

\* the issues print() echoed, in the order of the console
Echoed ==
    LET shown == SelectSeq(console, LAMBDA e : e[1] = "issue")
    IN  [k \in 1..Len(shown) |-> shown[k][2]]

\* main ran to its last line (158) / summary has returned
AtExit == argv = "dir" /\ pc = "exited"
AfterSummary == argv = "dir" /\ pc \in {"exit", "exited"}

\* C1: after check_directory and summary, the verdict summary returned is
\* true exactly when the error counter is above zero, and main exits with
\* code 1 exactly when the verdict is true and with code 0 otherwise; so a
\* run with no error exits with 0 however many warnings were logged.
C1_VerdictAndExitCode ==
    /\ AfterSummary => (has_errors <=> errors > 0)
    /\ AtExit => exit_code = (IF has_errors THEN 1 ELSE 0)
    /\ (AtExit /\ errors = 0) => (~has_errors /\ exit_code = 0)

\* a run that ended with warnings, no error and exit code 0
C1_Witness ==
    AtExit /\ warnings > 1 /\ errors = 0 /\ ~has_errors /\ exit_code = 0

EvaluatorOf(rule) ==
    CASE rule = "line_length" -> 1
      [] rule = "force_unwrapping" -> 2
      [] rule = "try_force" -> 3
      [] rule = "function_body_length" -> 4
      [] rule = "todo_format" -> 5
      [] rule = "variable_name" -> 6
      [] rule = "type_name" -> 6

\* the rule ids in the order the rules are listed
RuleRank(rule) == IF rule = "type_name" THEN 7 ELSE EvaluatorOf(rule)

C5_InterruptExitsZero ==
    pc = "killed" => (exit_code = 0 /\ Printed(<<"cancelled">>))

\* C5 amended: nothing catches the interrupt: no cancellation notice is ever
\* printed, and an interrupted run ends with a nonzero status, the console
\* and the issue log as they were.
C5_InterruptNotCaught ==
    /\ ~Printed(<<"cancelled">>)
    /\ pc = "killed" => exit_code # 0

\* a run interrupted during the scan, after issues were logged
C5_Witness == pc = "killed" /\ Len(issues) > 0 /\ file_idx = 1

\* the for loop of check_directory is at path p or past it
Entered(p) ==
    \/ p < file_idx
    \/ p = file_idx /\ pc \notin {"check_directory", "check_file"}

\* C6: a file that cannot be read is reported on the console and leaves the
\* issue sequence and both counters as they were; the scan goes on with the
\* next file (or to summary after the last); every discovered file is
\* entered exactly once; and the run still ends with exit code 0.
C6_ReadFailureContained ==
    [][/\ (pc = "check_file" /\ pc' \notin {"check_line_length", "killed"}) =>
             /\ console' = Append(console, <<"error_checking", swift_files[file_idx]>>)
             /\ issues' = issues
             /\ warnings' = warnings
             /\ errors' = errors
             /\ exit_code' = exit_code
             /\ file_idx' = file_idx + 1
             /\ pc' = IF file_idx < Len(swift_files) THEN "check_file" ELSE "summary"
       /\ pc' # "killed" =>
             \A p \in DOMAIN checked' :
                 checked'[p] = IF Entered(p)' THEN 1 ELSE 0
       /\ AfterSummary' => \A p \in DOMAIN swift_files' : checked'[p] = 1
       /\ AtExit' => exit_code' = 0]_vars

\* a finished run whose first file could not be read and whose second was
\* checked
C6_Witness ==
    /\ AtExit
    /\ exit_code = 0
    /\ Len(swift_files) = 2
    /\ Printed(<<"error_checking", 1>>)
    /\ Printed(<<"linting", 2>>)
    /\ Len(issues) > 0

\* C3 as stated: the file's first function, declared with its brace on line
\* s and whose brace depth counted from s first is <= 0 on line e, gets
\* exactly one function_body_length issue, at line s and reporting
\* e - s + 1, when e - s + 1 > 60, and none otherwise (none either while
\* the function is open).
C3_OneIssuePerLongFunction ==
    span_s > 0 =>
        SelectSeq(issues, LAMBDA x : x.line = span_s) =
            IF span_len > MaxFunctionLength
            THEN <<Issue(1, span_s, "warning", "function_body_length", span_len)>>
            ELSE <<>>

\* C8 as stated: inside a function, a line, whatever it is, leaves the
\* recorded start line alone and moves the brace depth by its opening minus
\* its closing braces.
C8_NestedAbsorbed ==
    [][in_function =>
          /\ function_start' = function_start
          /\ brace_count' = brace_count + BraceDelta(cur_line')]_vars

\* C9 as stated: after any line, inside a function the brace depth is above
\* zero.
C9_InsideMeansOpen == in_function => brace_count > 0

\* the `!` the claim counts: not after one of ! = < >, not before =
ClaimedForceUnwrap(code_part) ==
    \E p \in 1..Len(code_part) :
        /\ code_part[p] = "!"
        /\ p = 1 \/ code_part[p - 1] \notin {"!", "=", "<", ">"}
        /\ p = Len(code_part) \/ code_part[p + 1] # "="

\* C7 as stated: a line gets exactly one force_unwrapping warning if its
\* code portion holds a `!` not right after ! = < > and not right before =,
\* wherever that `!` stands, and no issue otherwise.
C7_OneWarningPerUnwrapLine ==
    pc = "force_unwrapping_done" =>
        issues = IF ClaimedForceUnwrap(CodePart(lines[1]))
                 THEN <<Issue(1, 1, "warning", "force_unwrapping", 0)>>
                 ELSE <<>>

\* C10: in a run of main the error counter stays 0 and every issue is a
\* warning, read failures included, so a run that reaches summary gets the
\* verdict false and exits with code 0.
C10_NoErrorInARun ==
    /\ errors = 0
    /\ \A k \in 1..Len(issues) : issues[k].severity = "warning"
    /\ warnings = Len(issues)
    /\ AfterSummary => ~has_errors
    /\ AtExit => exit_code = 0

\* a finished run with a file that could not be read and warnings of
\* several rules, function_body_length among them
C10_Witness ==
    /\ AtExit
    /\ exit_code = 0
    /\ Printed(<<"error_checking", 1>>)
    /\ \E k \in 1..Len(issues) : issues[k].rule = "function_body_length"

====
